---- MODULE Spec2Model ----
(***************************************************************************)
(* Process-connection correlation (connections, src/pkg/connection.go)     *)
(* and node graph assembly (nodeGraph, src/unnamed/part_000) of the gomon  *)
(* Grafana data source.                                                    *)
(***************************************************************************)
EXTENDS Integers, Sequences, FiniteSets, TLC

VARIABLES
    tb,        \* the process table returned by buildTable
    pt,        \* the table nodeGraph works on (focus-filtered, later spliced)
    qm,        \* the query model of the request
    pc,        \* position in nodeGraph / connections
    epm,       \* connections: endpoint index  key -> pid -> positions
    connm,     \* connections: map [4]int -> connection
    visited,   \* connections: processes the main range loop has visited
    panicked,  \* connections: the deferred recover caught a panic
    conns,     \* the ordered slice connections returned
    prev,      \* the slice returned by the previous pass over the same table
    pass,      \* number of the correlation pass over this table
    nodes,     \* rows of the nodes frame
    edges,     \* rows of the edges frame
    built,     \* process: the table as process.BuildTable returned it
    ptab,      \* process: the table process.Connections works on
    pepm,      \* process.Connections: endpoint index  [3]string -> pid
    hdpid,     \* process.Connections: counter of the descriptors seen
    resolved,  \* process.Connections: processes the second loop has visited
    recovered, \* process.Connections: the deferred recover caught a panic
    ppc,       \* position in Nodegraph / process.Connections
    reqpid,    \* Nodegraph: the pid the request asks for
    resp,      \* Nodegraph: the response
    which,     \* collector: the function that reads lsof's output
    scanned,   \* collector: number of lines sc.Scan has delivered
    heap,      \* collector: the maps allocated so far, by reference
    cepm,      \* collector: reference held by the local variable epm
    epMap,     \* reference held by the package variable epMap
    epLock,    \* the RWMutex that guards epMap
    cpc,       \* collector: position
    rpc,       \* reader of epMap: position
    snap,      \* reader: the reference it read from epMap
    held,      \* reader: the content it found when it read the reference
    since,     \* the lines delivered since the last trailer
    cycles     \* the tables of the cycles a trailer has closed

\* the state of nodeGraph and connections (package main)
graphVars == <<tb, pt, qm, pc, epm, connm, visited, panicked, conns, prev, pass, nodes, edges>>

\* the state of Nodegraph and process.Connections (packages plugin and process)
procVars == <<built, ptab, pepm, hdpid, resolved, recovered, ppc, reqpid, resp>>

\* the state of the lsof collector and of a reader of epMap
collVars == <<which, scanned, heap, cepm, epMap, epLock, cpc, rpc, snap, held, since, cycles>>

others == <<procVars, collVars>>

vars == <<graphVars, procVars, collVars>>

----------------------------------------------------------------------------
(* Bounds of the model *)

\* the processes of a table are 0..MaxPid
MaxPid == 3

\* the lines lsof writes before its output ends
MaxLines == 5

(* Program constants *)

\* math.MaxInt32, the process id of a file endpoint.  The program's value is
\* 2^31 - 1; the model takes 2^30 - 1 so that the ids math.MaxInt32 + j of the
\* file nodes stay within range.  Only its order against process ids matters.
MaxInt32 == 1073741823

Nil == [nil |-> TRUE]

----------------------------------------------------------------------------
(* Strings: the conversions of package net and path/filepath, restricted   *)
(* to the endpoint names and executable paths of the model.                *)

ExtAddr  == "203.0.113.5:443"
LoopAddr == "127.0.0.1:8080"
LoopSelf == "127.0.0.1:5000"
LanAddr  == "10.0.0.2:22"
StarAddr == "*:*"

\* net.SplitHostPort: <<host, port>>, both empty on error
SplitHostPort(s) ==
    CASE s = ExtAddr  -> <<"203.0.113.5", "443">>
      [] s = LoopAddr -> <<"127.0.0.1", "8080">>
      [] s = LoopSelf -> <<"127.0.0.1", "5000">>
      [] s = LanAddr  -> <<"10.0.0.2", "22">>
      [] s = StarAddr -> <<"*", "*">>
      [] OTHER        -> <<"", "">>

\* net.ParseIP followed by IP.String(): the textual IP, "<nil>" when the
\* host is not an IP literal
ParseIP(host) ==
    IF host \in {"203.0.113.5", "127.0.0.1", "10.0.0.2"} THEN host ELSE "<nil>"

IsLoopback(ip) == ip = "127.0.0.1"

\* no address of the model is in 169.254/16, ff01::/16 or ff02::/16
IsLinkLocal(ip) == FALSE

\* localIps: addresses the host name resolves to, plus "localhost"
localIps == {"localhost", "10.0.0.2"}

\* interfaces: local ip address -> network interface
interfaces == [ip \in {"10.0.0.2", "127.0.0.1"} |-> IF ip = "127.0.0.1" THEN "lo0" ELSE "en0"]

\* filepath.Base on the executable paths of the model
Base(path) ==
    CASE path = ""              -> "."
      [] path = "/sbin/launchd" -> "launchd"
      [] path = "/bin/sh"       -> "sh"
      [] path = "/usr/bin/nc"   -> "nc"
      [] path = "/f"            -> "f"
      [] OTHER                  -> path

\* filepath.Dir on the file names of the model
Dir(path) == IF path = "/f" THEN "/" ELSE "."

Itoa(n) == ToString(n)

----------------------------------------------------------------------------
(* connections, src/pkg/connection.go *)

TransportTypes == {"FIFO", "PIPE", "TCP", "UDP", "unix"}

\* a descriptor as the collector records it
Conn(fd, type, name, self, peer) ==
    [Descriptor |-> fd, Type |-> type, Name |-> name, Self |-> self, Peer |-> peer]

Put(f, k, v) == [x \in DOMAIN f \cup {k} |-> IF x = k THEN v ELSE f[x]]

\* key of the endpoint index
EpKey(type, name) == type \o ": " \o name

\* the first loop: positions of every named transport descriptor, per key
\* and pid, in the order of p.Connections
IndexedAt(tbl, key, pid) ==
    SelectSeq([i \in 1..Len(tbl[pid].Connections) |-> i],
              LAMBDA i : LET c == tbl[pid].Connections[i] IN
                            /\ c.Self # ""
                            /\ c.Type \in TransportTypes
                            /\ EpKey(c.Type, c.Self) = key)

\* the descriptors the first loop enters in the index
Indexed(tbl) ==
    UNION { { <<q, j>> : j \in { i \in 1..Len(tbl[q].Connections) :
                                   /\ tbl[q].Connections[i].Self # ""
                                   /\ tbl[q].Connections[i].Type \in TransportTypes } } :
            q \in DOMAIN tbl }

BuildIndex(tbl) ==
    LET keys == { EpKey(tbl[d[1]].Connections[d[2]].Type, tbl[d[1]].Connections[d[2]].Self) :
                    d \in Indexed(tbl) }
    IN [k \in keys |->
          [p \in {q \in DOMAIN tbl : IndexedAt(tbl, k, q) # <<>>} |-> IndexedAt(tbl, k, p)]]

\* the connection recorded for a process and its parent
ParentConn(tbl, pid) ==
    LET p == tbl[pid]
        ppid == p.Ppid
        pp == tbl[ppid]
    IN [ftype |-> "parent:" \o Itoa(ppid),
        name  |-> "child:" \o Itoa(pid),
        self  |-> [pid |-> ppid, fd |-> -1, command |-> pp.Exec, name |-> "parent"],
        peer  |-> [pid |-> pid, fd |-> -1, command |-> p.Exec, name |-> "child"]]

SelfEndpoint(tbl, pid, conn) ==
    [pid |-> pid, fd |-> conn.Descriptor, command |-> tbl[pid].Exec, name |-> conn.Self]

\* IsRemote without the tests of the ip itself: only the addresses of the
\* host name count as local
IsRemoteByNameOnly(peer) ==
    LET ip == ParseIP(SplitHostPort(peer)[1])
    IN ~(ip \in localIps)

\* the host of a peer that is not in the index is taken for remote
IsRemote(peer) ==
    LET ip == ParseIP(SplitHostPort(peer)[1])
    IN ~(ip \in localIps \/ ip \in DOMAIN interfaces \/ IsLoopback(ip) \/ IsLinkLocal(ip))

\* ascending pids of the processes indexed at a key
RECURSIVE SortPids(_)
SortPids(S) ==
    IF S = {} THEN <<>>
    ELSE LET m == CHOOSE x \in S : \A y \in S : x <= y
         IN <<m>> \o SortPids(S \ {m})

\* Reciprocal that takes the candidate found at the key without looking at
\* the peer it names
ReciprocalByKeyOnly(conn, rconn) ==
    /\ conn.Type = rconn.Type
    /\ conn.Peer = rconn.Self

\* the reciprocal condition on a candidate descriptor
Reciprocal(conn, rconn) ==
    /\ conn.Type = rconn.Type
    /\ conn.Peer = rconn.Self
    /\ \/ rconn.Peer = conn.Self
       \/ rconn.Peer = "" /\ (conn.Type = "PSXSHM" \/ conn.Type = "unix")

\* Match that looks for a previous record in its own direction only
MatchOneDirection(cm, tbl, pid, conn, rpid, rconn) ==
    LET fd == conn.Descriptor
        rfd == rconn.Descriptor
    IN IF ~Reciprocal(conn, rconn) THEN cm
       ELSE IF <<pid, fd, rpid, rfd>> \in DOMAIN cm THEN cm
       ELSE Put(cm, <<pid, fd, rpid, rfd>>,
                [ftype |-> conn.Type,
                 name  |-> conn.Name,
                 self  |-> SelfEndpoint(tbl, pid, conn),
                 peer  |-> [pid |-> rpid, fd |-> rfd,
                            command |-> tbl[rpid].Exec, name |-> conn.Peer]])

\* the body of the loop over the positions: a reciprocal candidate that is
\* not yet recorded in either direction is recorded as self -> peer
Match(cm, tbl, pid, conn, rpid, rconn) ==
    LET fd == conn.Descriptor
        rfd == rconn.Descriptor
    IN IF ~Reciprocal(conn, rconn) THEN cm
       ELSE IF <<pid, fd, rpid, rfd>> \in DOMAIN cm THEN cm
       ELSE IF <<rpid, rfd, pid, fd>> \in DOMAIN cm THEN cm
       ELSE Put(cm, <<pid, fd, rpid, rfd>>,
                [ftype |-> conn.Type,
                 name  |-> conn.Name,
                 self  |-> SelfEndpoint(tbl, pid, conn),
                 peer  |-> [pid |-> rpid, fd |-> rfd,
                            command |-> tbl[rpid].Exec, name |-> conn.Peer]])

\* the loop over the positions ix of candidate process rpid
RECURSIVE MatchPositions(_, _, _, _, _, _)
MatchPositions(cm, tbl, pid, conn, rpid, ix) ==
    IF ix = <<>> THEN cm
    ELSE MatchPositions(Match(cm, tbl, pid, conn, rpid, tbl[rpid].Connections[Head(ix)]),
                        tbl, pid, conn, rpid, Tail(ix))

\* the loop over the candidate processes rpids
RECURSIVE MatchPids(_, _, _, _, _, _)
MatchPids(cm, tbl, ix, pid, conn, rpids) ==
    IF rpids = <<>> THEN cm
    ELSE LET rpid == Head(rpids)
             cm2 == IF pid = rpid THEN cm
                    ELSE MatchPositions(cm, tbl, pid, conn, rpid, ix[rpid])
         IN MatchPids(cm2, tbl, ix, pid, conn, Tail(rpids))

\* Listening that lets every descriptor through
ListeningNever(conn) == FALSE

\* a descriptor without a peer is left alone
Listening(conn) == conn.Peer = ""

\* the body of the loop over p.Connections: the switch on conn.Type
ConnStep(cm, tbl, idx, pid, conn) ==
    LET fd == conn.Descriptor
        self == SelfEndpoint(tbl, pid, conn)
        key == EpKey(conn.Type, conn.Peer)
    IN CASE conn.Type = "NUL" -> cm
         [] conn.Type \in {"REG", "PSXSHM"} ->
              Put(cm, <<pid, fd, MaxInt32, 0>>,
                  [ftype |-> conn.Type, name |-> conn.Name, self |-> self,
                   peer |-> [pid |-> MaxInt32, fd |-> 0, command |-> "", name |-> conn.Name]])
         [] conn.Type = "systm" ->
              Put(cm, <<pid, fd, 0, 0>>,
                  [ftype |-> conn.Type, name |-> conn.Name, self |-> self,
                   peer |-> [pid |-> 0, fd |-> 0, command |-> conn.Peer, name |-> conn.Name]])
         [] conn.Type \in TransportTypes ->
              IF Listening(conn) THEN cm
              ELSE IF key \notin DOMAIN idx
              THEN IF conn.Type \in {"TCP", "UDP"} /\ IsRemote(conn.Peer)
                   THEN Put(cm, <<-1, -1, pid, fd>>,
                            [ftype |-> conn.Type, name |-> conn.Name,
                             self |-> [pid |-> -1, fd |-> -1, name |-> conn.Peer,
                                       command |-> SplitHostPort(conn.Peer)[2]],
                             peer |-> self])
                   ELSE cm
              ELSE MatchPids(cm, tbl, idx[key], pid, conn, SortPids(DOMAIN idx[key]))
         [] OTHER -> cm

RECURSIVE ConnLoop(_, _, _, _, _)
ConnLoop(cm, tbl, idx, pid, cs) ==
    IF cs = <<>> THEN cm
    ELSE ConnLoop(ConnStep(cm, tbl, idx, pid, Head(cs)), tbl, idx, pid, Tail(cs))

\* the process the range loop visits dereferences a nil pointer
Faults(tbl, pid) ==
    \/ tbl[pid] = Nil
    \/ tbl[pid].Ppid \notin DOMAIN tbl
    \/ tbl[tbl[pid].Ppid] = Nil

\* one iteration of the main range loop over pt
ProcessStep(cm, tbl, idx, pid) ==
    ConnLoop(Put(cm, <<tbl[pid].Ppid, -1, pid, -1>>, ParentConn(tbl, pid)),
             tbl, idx, pid, tbl[pid].Connections)

\* KeyLess comparing the key in the order of its elements
KeyLessInKeyOrder(a, b) ==
    \/ a[1] < b[1]
    \/ a[1] = b[1] /\ (\/ a[2] < b[2]
                       \/ a[2] = b[2] /\ (\/ a[3] < b[3]
                                          \/ a[3] = b[3] /\ a[4] < b[4]))

\* the less function of the final sort.Slice
KeyLess(a, b) ==
    \/ a[1] < b[1]
    \/ a[1] = b[1] /\ (\/ a[3] < b[3]
                       \/ a[3] = b[3] /\ (\/ a[2] < b[2]
                                          \/ a[2] = b[2] /\ a[4] < b[4]))

RECURSIVE SortKeys(_)
SortKeys(S) ==
    IF S = {} THEN <<>>
    ELSE LET m == CHOOSE x \in S : \A y \in S \ {x} : KeyLess(x, y)
         IN <<m>> \o SortKeys(S \ {m})

SortedConns(cm) ==
    LET keys == SortKeys(DOMAIN cm)
    IN [i \in 1..Len(keys) |-> cm[keys[i]]]

----------------------------------------------------------------------------
(* The process tree: buildTree, findTree and flatTree *)

IsEntry(tbl, pid) == pid \in DOMAIN tbl /\ tbl[pid] # Nil

\* the processes whose parent is pid, ascending
Children(tbl, pid) ==
    SortPids({c \in DOMAIN tbl : IsEntry(tbl, c) /\ c # pid /\ tbl[c].Ppid = pid})

\* the roots of the tree: entries that hang under no other entry
Roots(tbl) ==
    SortPids({r \in DOMAIN tbl :
                \/ tbl[r] = Nil
                \/ tbl[r].Ppid = r
                \/ tbl[r].Ppid \notin DOMAIN tbl})

\* depth-first, parents before children, siblings by ascending pid
RECURSIVE FlatFrom(_, _, _)
FlatFrom(tbl, todo, seen) ==
    IF todo = <<>> THEN <<>>
    ELSE LET pid == Head(todo) IN
         IF pid \in seen THEN FlatFrom(tbl, Tail(todo), seen)
         ELSE <<pid>> \o FlatFrom(tbl, Children(tbl, pid) \o Tail(todo), seen \cup {pid})

FlatTree(tbl) == FlatFrom(tbl, Roots(tbl), {})

\* flatTree(findTree(buildTree(pt), pid), 0): pid and its descendants
Subtree(tbl, pid) == FlatFrom(tbl, <<pid>>, {})

Range(seq) == {seq[i] : i \in 1..Len(seq)}

----------------------------------------------------------------------------
(* nodeGraph, src/unnamed/part_000 *)

\* the ancestors of pid above process 1; the walk dereferences a nil entry
\* when it leaves the table
RECURSIVE Ancestors(_, _, _)
Ancestors(tbl, pid, fuel) ==
    IF pid <= 1 \/ fuel = 0 \/ ~IsEntry(tbl, pid) THEN {}
    ELSE {pid} \cup Ancestors(tbl, tbl[pid].Ppid, fuel - 1)

RECURSIVE AncestorsFault(_, _, _)
AncestorsFault(tbl, pid, fuel) ==
    IF pid <= 1 \/ fuel = 0 THEN FALSE
    ELSE IF ~IsEntry(tbl, pid) THEN TRUE
    ELSE AncestorsFault(tbl, tbl[pid].Ppid, fuel - 1)

Lookup(tbl, pid) == IF pid \in DOMAIN tbl THEN tbl[pid] ELSE Nil

\* the table of the focus process: processes 0 and 1, the focus process, its
\* ancestors and its descendants
FocusTable(tbl, pid) ==
    LET keep == {0, 1, pid} \cup Ancestors(tbl, tbl[pid].Ppid, Cardinality(DOMAIN tbl))
                  \cup Range(Subtree(tbl, pid))
    IN [q \in keep |-> Lookup(tbl, q)]

DefaultQuery == [Pid |-> 0, Kernel |-> FALSE, Daemons |-> FALSE, Files |-> FALSE]

ProcId(tbl, pid) == Base(tbl[pid].Exec) \o "[" \o Itoa(pid) \o "]"

hostArc == <<1, 0, 0>>
procArc == <<0, 1, 0>>
fileArc == <<0, 0, 1>>

ProcNode(tbl, pid, title) == <<tbl[pid].Exec, title, "[" \o Itoa(pid) \o "]">> \o procArc

Pseudo(name, pid, ppid) ==
    [Name |-> name, Pid |-> pid, Ppid |-> ppid, Exec |-> "", Connections |-> <<>>]

\* the top-most ancestor of pid and the parent the walk stops at
RECURSIVE TopWalk(_, _, _, _)
TopWalk(tbl, pid, ppid, fuel) ==
    IF ppid > 1 /\ fuel > 0
    THEN TopWalk(tbl, ppid, tbl[ppid].Ppid, fuel - 1)
    ELSE <<pid, ppid>>

MapGet(m, k) == IF k \in DOMAIN m THEN m[k] ELSE ""

\* the first loop over conns; st = [nm, em, pt, i]
AssembleConn(st, conn, q) ==
    LET tbl == st.pt IN
    IF conn.self.pid = -1 THEN
        LET hp == SplitHostPort(conn.self.name)
            self == conn.ftype \o ":" \o conn.self.name
            peer == ProcId(tbl, conn.peer.pid)
            nm1 == Put(st.nm, self, <<"", hp[1], ":" \o hp[2]>> \o hostArc)
            nm2 == Put(nm1, peer, ProcNode(tbl, conn.peer.pid, Base(tbl[conn.peer.pid].Exec)))
            local == SplitHostPort(conn.peer.name)[1]
            em1 == Put(st.em, self \o "->" \o Itoa(conn.peer.pid),
                       <<self, peer, MapGet(interfaces, local), conn.peer.name>>)
            top == TopWalk(tbl, conn.peer.pid, tbl[conn.peer.pid].Ppid, Cardinality(DOMAIN tbl))
            pt1 == Put(tbl, st.i, Pseudo(self, st.i, top[2]))
            pt2 == [pt1 EXCEPT ![top[1]].Ppid = st.i]
        IN [nm |-> nm2, em |-> em1, pt |-> pt2, i |-> st.i - 1]
    ELSE IF conn.peer.pid = MaxInt32 THEN st
    ELSE IF conn.self.pid = 0 THEN st
    ELSE IF conn.self.pid = 1 THEN
        IF q.Daemons
        THEN [st EXCEPT !.nm = Put(st.nm, ProcId(tbl, conn.peer.pid),
                                   ProcNode(tbl, conn.peer.pid, Base(tbl[conn.peer.pid].Exec)))]
        ELSE st
    ELSE IF conn.peer.pid = 1 THEN
        IF q.Daemons
        THEN [st EXCEPT !.nm = Put(st.nm, ProcId(tbl, conn.self.pid),
                                   ProcNode(tbl, conn.self.pid, Base(tbl[conn.self.pid].Exec)))]
        ELSE st
    ELSE IF conn.peer.pid = 0 /\ ~q.Kernel THEN st
    ELSE
        LET peerExec == IF conn.peer.pid = 0 THEN "kernel" ELSE Base(tbl[conn.peer.pid].Exec)
            self == ProcId(tbl, conn.self.pid)
            peer == peerExec \o "[" \o Itoa(conn.peer.pid) \o "]"
            nm1 == Put(st.nm, self, ProcNode(tbl, conn.self.pid, Base(tbl[conn.self.pid].Exec)))
            nm2 == Put(nm1, peer, ProcNode(tbl, conn.peer.pid, peerExec))
            em1 == Put(st.em, Itoa(conn.self.pid) \o "->" \o Itoa(conn.peer.pid),
                       <<self, peer, conn.ftype, conn.name>>)
        IN [st EXCEPT !.nm = nm2, !.em = em1]

RECURSIVE AssembleConns(_, _, _)
AssembleConns(st, cs, q) ==
    IF cs = <<>> THEN st
    ELSE AssembleConns(AssembleConn(st, Head(cs), q), Tail(cs), q)

\* the second loop over conns, taken when qm.Files; st = [nm, em, pt, j]
AssembleFile(st, conn) ==
    LET tbl == st.pt
        self == ProcId(tbl, conn.self.pid)
    IN IF conn.peer.pid # MaxInt32 \/ self \notin DOMAIN st.nm THEN st
       ELSE [nm |-> Put(st.nm, conn.name, <<"", Dir(conn.name), Base(conn.name)>> \o fileArc),
             em |-> Put(st.em, Itoa(conn.self.pid) \o "->" \o conn.name,
                        <<self, conn.name, conn.ftype, tbl[conn.self.pid].Exec>>),
             pt |-> Put(tbl, MaxInt32 + st.j, Pseudo(conn.name, MaxInt32 + st.j, conn.self.pid)),
             j  |-> st.j + 1]

RECURSIVE AssembleFiles(_, _)
AssembleFiles(st, cs) ==
    IF cs = <<>> THEN st
    ELSE AssembleFiles(AssembleFile(st, Head(cs)), Tail(cs))

\* the id under which the traversal looks a process up in nm
NodeId(tbl, pid) ==
    IF pid < 0 \/ pid >= MaxInt32 THEN tbl[pid].Name
    ELSE IF pid = 0 THEN "kernel[0]"
    ELSE ProcId(tbl, pid)

\* the loop over flatTree(buildTree(pt), 0): rows of the nodes frame
RECURSIVE NodeRows(_, _, _)
NodeRows(tbl, nm, pids) ==
    IF pids = <<>> THEN <<>>
    ELSE LET id == NodeId(tbl, Head(pids)) IN
         IF id \in DOMAIN nm
         THEN <<(<<id>> \o nm[id])>> \o
              NodeRows(tbl, [k \in DOMAIN nm \ {id} |-> nm[k]], Tail(pids))
         ELSE NodeRows(tbl, nm, Tail(pids))

EmptyMap == [k \in {} |-> <<>>]

\* nodeGraph after connections returned: the maps nm and em and the table
Assembled(tbl, cs, q) ==
    LET s1 == AssembleConns([nm |-> EmptyMap, em |-> EmptyMap, pt |-> tbl, i |-> -1], cs, q)
        s2 == IF q.Files
              THEN AssembleFiles([nm |-> s1.nm, em |-> s1.em, pt |-> s1.pt, j |-> 1], cs)
              ELSE [nm |-> s1.nm, em |-> s1.em, pt |-> s1.pt, j |-> 1]
    IN s2

----------------------------------------------------------------------------
(* process.Connections, src/unnamed/part_002 *)

\* the error of net.SplitHostPort is nil
SplitHostPortOk(s) == s \in {ExtAddr, LoopAddr, LoopSelf, LanAddr, StarAddr}

\* s[0:2] is out of range: the names of the model shorter than two bytes
TooShort(s) == s \in {"", "/"}

\* s[0:2] == "0x": the device names of the model
HexPrefix(s) == s \in {"0xa", "0xb", "0xc", "0xd", "0xe", "0xf"}

\* the first loop evaluates conn.Peer.Name[0:2] on this descriptor, and the
\* slice expression is out of range
IndexFault(conn) ==
    /\ conn.Type = "unix"
    /\ conn.Self.Name # ""
    /\ TooShort(conn.Peer.Name)

\* the key under which the first loop enters a descriptor
IndexKey(conn) ==
    IF conn.Type = "unix" /\ conn.Self.Name # "" /\ ~HexPrefix(conn.Peer.Name)
    THEN <<conn.Type, conn.Self.Name, "">>
    ELSE <<conn.Type, conn.Self.Name, conn.Peer.Name>>

RECURSIVE IndexConns(_, _)
IndexConns(m, cs) ==
    IF cs = <<>> THEN m
    ELSE IndexConns(Put(m, IndexKey(Head(cs)), Head(cs).Self.Pid), Tail(cs))

\* the first loop, visiting the processes in the order ord: a later
\* descriptor with the same key replaces the pid of an earlier one
RECURSIVE IndexProcs(_, _, _)
IndexProcs(m, tbl, ord) ==
    IF ord = <<>> THEN m
    ELSE IndexProcs(IndexConns(m, tbl[Head(ord)].Connections), tbl, Tail(ord))

\* the orders in which a range loop may visit the keys S of a map
RECURSIVE Orders(_)
Orders(S) ==
    IF S = {} THEN {<<>>}
    ELSE UNION { { <<x>> \o r : r \in Orders(S \ {x}) } : x \in S }

SetPeerPid(tbl, p, i, v) == [tbl EXCEPT ![p].Connections[i].Peer.Pid = v]

\* the loop over the descriptors of the partner: a descriptor whose local
\* name is the peer name of conn gets the name and the pid of conn's process
\* as its peer
RECURSIVE BackfillConns(_, _, _)
BackfillConns(cs, conn, p) ==
    IF cs = <<>> THEN <<>>
    ELSE <<(IF Head(cs).Self.Name = conn.Peer.Name
            THEN [Type |-> Head(cs).Type, Self |-> Head(cs).Self,
                  Peer |-> [Name |-> conn.Self.Name, Pid |-> p]]
            ELSE Head(cs))>> \o BackfillConns(Tail(cs), conn, p)

\* the body of the second loop's loop over p.Connections; st = [pt, hdpid]
Resolve(st, idx, p, i) ==
    LET h == st.hdpid + 1
        conn == st.pt[p].Connections[i]
        full == <<conn.Type, conn.Peer.Name, conn.Self.Name>>
        part == <<conn.Type, conn.Peer.Name, "">>
    IN IF conn.Peer.Name = "" THEN [st EXCEPT !.hdpid = h]
       ELSE IF conn.Self.Name = ""
       THEN [pt |-> SetPeerPid(st.pt, p, i, h + MaxInt32), hdpid |-> h]
       ELSE IF full \in DOMAIN idx
       THEN [pt |-> SetPeerPid(st.pt, p, i, idx[full]), hdpid |-> h]
       ELSE IF part \in DOMAIN idx
       THEN [pt |-> SetPeerPid([st.pt EXCEPT ![idx[part]].Connections =
                                   BackfillConns(st.pt[idx[part]].Connections, conn, p)],
                               p, i, idx[part]),
             hdpid |-> h]
       ELSE IF SplitHostPortOk(conn.Peer.Name)
       THEN [pt |-> SetPeerPid(st.pt, p, i, -h), hdpid |-> h]
       ELSE [st EXCEPT !.hdpid = h]

\* the loop over the descriptors p had when the loop began
RECURSIVE ResolveFrom(_, _, _, _, _)
ResolveFrom(st, idx, p, i, n) ==
    IF i > n THEN st
    ELSE ResolveFrom(Resolve(st, idx, p, i), idx, p, i + 1, n)

\* the connection appended for a process and its parent
ParentLink(tbl, p) ==
    [Type |-> "parent",
     Self |-> [Name |-> tbl[tbl[p].Ppid].Executable, Pid |-> tbl[p].Ppid],
     Peer |-> [Name |-> tbl[p].Executable, Pid |-> p]]

\* pt[p.Ppid].Executable dereferences a nil pointer
ParentFault(tbl, p) == tbl[p].Ppid > 0 /\ tbl[p].Ppid \notin DOMAIN tbl

\* one iteration of the second loop as far as it gets; st = [pt, hdpid]
ResolveProcess(st, idx, p) ==
    LET s1 == ResolveFrom(st, idx, p, 1, Len(st.pt[p].Connections))
    IN IF s1.pt[p].Ppid > 0 /\ ~ParentFault(s1.pt, p)
       THEN [s1 EXCEPT !.pt[p].Connections =
                           Append(s1.pt[p].Connections, ParentLink(s1.pt, p))]
       ELSE s1

----------------------------------------------------------------------------
(* Nodegraph, src/unnamed/part_001 *)

\* the arcs of a node: host, process, data, socket, kernel
Arc(k) ==
    CASE k = 1 -> <<1, 0, 0, 0, 0>>
      [] k = 2 -> <<0, 1, 0, 0, 0>>
      [] k = 3 -> <<0, 0, 1, 0, 0>>
      [] k = 4 -> <<0, 0, 0, 1, 0>>
      [] k = 5 -> <<0, 0, 0, 0, 1>>

\* gocore.Hostname: the name the resolver has for an address, the address
\* itself when it has none
Hostname(host) ==
    CASE host = "203.0.113.5" -> "host.example"
      [] host = "127.0.0.1"   -> "localhost"
      [] OTHER                -> host

\* url.QueryEscape on the data names of the model
QueryEscape(str) ==
    CASE str = "FIFO:/f" -> "FIFO%3A%2Ff"
      [] str = "REG:/f"  -> "REG%3A%2Ff"
      [] OTHER           -> str

\* strconv.Atoi succeeds: no name of the model is a decimal number
IsDecimal(str) == FALSE

longname(tbl, p) ==
    IF p \in DOMAIN tbl
    THEN (IF tbl[p].Executable = "" THEN tbl[p].Name ELSE tbl[p].Executable)
             \o "[" \o Itoa(p) \o "]"
    ELSE ""

shortname(tbl, p) ==
    IF p \in DOMAIN tbl THEN tbl[p].Name \o "[" \o Itoa(p) \o "]" ELSE ""

\* family: the walk over the ancestors of p reads the parent of a process
\* that is not in the table
RECURSIVE FamilyFault(_, _, _)
FamilyFault(tbl, p, fuel) ==
    IF p <= 0 \/ fuel = 0 THEN FALSE
    ELSE IF p \notin DOMAIN tbl THEN TRUE
    ELSE FamilyFault(tbl, tbl[p].Ppid, fuel - 1)

\* p and its ancestors above process 0
RECURSIVE Forebears(_, _, _)
Forebears(tbl, p, fuel) ==
    IF p <= 0 \/ fuel = 0 \/ p \notin DOMAIN tbl THEN {}
    ELSE {p} \cup Forebears(tbl, tbl[p].Ppid, fuel - 1)

\* family: the ancestors of p and the processes of its tree
family(tbl, p) ==
    Forebears(tbl, p, Cardinality(DOMAIN tbl)) \cup Range(Subtree(tbl, p))

\* the processes of tb in the extended family of a process below process 1
\* or with a connection to a remote host
Considered(tbl) ==
    UNION { family(tbl, p) : p \in {q \in DOMAIN tbl : tbl[q].Ppid > 1} }
      \cup UNION { { tbl[p].Connections[i].Self.Pid :
                       i \in {j \in 1..Len(tbl[p].Connections) :
                                tbl[p].Connections[j].Peer.Pid < 0} } :
                   p \in DOMAIN tbl }

\* the request's pid, reset when the table does not have it
Asked(tbl, p) == IF p # 0 /\ p \notin DOMAIN tbl THEN 0 ELSE p

\* building pt dereferences a nil pointer
SelectFault(tbl, p) ==
    IF Asked(tbl, p) > 0
    THEN FamilyFault(tbl, Asked(tbl, p), Cardinality(DOMAIN tbl) + 1)
    ELSE \E q \in DOMAIN tbl :
            tbl[q].Ppid > 1 /\ FamilyFault(tbl, q, Cardinality(DOMAIN tbl) + 1)

\* the keys of pt
Selected(tbl, p) ==
    IF Asked(tbl, p) > 0 THEN family(tbl, Asked(tbl, p)) ELSE Considered(tbl)

ProcRow(tbl, p) ==
    <<p, tbl[p].Name, Itoa(p), longname(tbl, p), longname(tbl, tbl[p].Ppid)>> \o Arc(2)

Arrow(a, b) == Itoa(a) \o " -> " \o Itoa(b)

Line(type, from, to) == type \o ":" \o from \o " -> " \o to

\* the connection is left out of the graph
Ignored(conn, p) ==
    \/ conn.Self.Pid = 0 \/ conn.Peer.Pid = 0
    \/ conn.Self.Pid = 1 \/ conn.Peer.Pid = 1
    \/ conn.Self.Pid = conn.Peer.Pid
    \/ p = 0 /\ conn.Peer.Pid >= MaxInt32

\* conn.Self.Name[0:2] is evaluated and is out of range
ArcFault(conn) ==
    conn.Peer.Pid < 0 /\ ~IsDecimal(conn.Self.Name) /\ TooShort(conn.Self.Name)

\* peer is remote host or listener; st = [nm, em]
HostEdge(st, tbl, conn) ==
    LET hp == SplitHostPort(conn.Peer.Name)
        arc == IF IsDecimal(conn.Self.Name) \/ HexPrefix(conn.Self.Name)
               THEN Arc(4) ELSE Arc(1)
        id == Arrow(conn.Peer.Pid, conn.Self.Pid)
    IN [nm |-> Put(st.nm, conn.Peer.Pid,
                   <<conn.Peer.Pid, conn.Type \o ":" \o hp[2], Hostname(hp[1]), hp[1],
                     Hostname(hp[1])>> \o arc),
        em |-> Put(st.em, id,
                   <<id, conn.Peer.Pid, conn.Self.Pid, hp[1], shortname(tbl, conn.Self.Pid),
                     <<Line(conn.Type, conn.Peer.Name, conn.Self.Name)>> >>)]

\* peer is data; st = [nm, em]
DataEdge(st, tbl, conn) ==
    LET peer == conn.Type \o ":" \o conn.Peer.Name
        arc == IF conn.Type # "REG" /\ conn.Type # "DIR" THEN Arc(5) ELSE Arc(3)
        id == Arrow(conn.Self.Pid, conn.Peer.Pid)
    IN [nm |-> Put(st.nm, conn.Peer.Pid,
                   <<conn.Peer.Pid, conn.Type, conn.Peer.Name, peer,
                     shortname(tbl, conn.Self.Pid)>> \o arc),
        em |-> IF id \in DOMAIN st.em THEN st.em
               ELSE Put(st.em, id,
                        <<id, conn.Self.Pid, conn.Peer.Pid, shortname(tbl, conn.Self.Pid),
                          QueryEscape(peer),
                          <<Line(conn.Type, conn.Self.Name, conn.Peer.Name)>> >>)]

\* an edge map that looks an edge up in the direction of the connection only
ProcessEdgeOneWay(st, tbl, conn) ==
    LET id == Arrow(conn.Self.Pid, conn.Peer.Pid)
    IN [nm |-> Put(st.nm, conn.Peer.Pid, ProcRow(tbl, conn.Peer.Pid)),
        em |-> IF id \in DOMAIN st.em
               THEN [st.em EXCEPT ![id][6] =
                        Append(@, Line(conn.Type, conn.Self.Name, conn.Peer.Name))]
               ELSE Put(st.em, id,
                        <<id, conn.Self.Pid, conn.Peer.Pid, shortname(tbl, conn.Self.Pid),
                          shortname(tbl, conn.Peer.Pid),
                          <<shortname(tbl, conn.Self.Pid) \o " -> " \o shortname(tbl, conn.Peer.Pid),
                            Line(conn.Type, conn.Self.Name, conn.Peer.Name)>> >>)]

\* peer is process: the edge of the pair gets one more line, whichever
\* direction it has; st = [nm, em]
ProcessEdge(st, tbl, conn) ==
    LET id == Arrow(conn.Self.Pid, conn.Peer.Pid)
        di == Arrow(conn.Peer.Pid, conn.Self.Pid)
    IN [nm |-> Put(st.nm, conn.Peer.Pid, ProcRow(tbl, conn.Peer.Pid)),
        em |-> IF id \in DOMAIN st.em
               THEN [st.em EXCEPT ![id][6] =
                        Append(@, Line(conn.Type, conn.Self.Name, conn.Peer.Name))]
               ELSE IF di \in DOMAIN st.em
               THEN [st.em EXCEPT ![di][6] =
                        Append(@, Line(conn.Type, conn.Peer.Name, conn.Self.Name))]
               ELSE Put(st.em, id,
                        <<id, conn.Self.Pid, conn.Peer.Pid, shortname(tbl, conn.Self.Pid),
                          shortname(tbl, conn.Peer.Pid),
                          <<shortname(tbl, conn.Self.Pid) \o " -> " \o shortname(tbl, conn.Peer.Pid),
                            Line(conn.Type, conn.Self.Name, conn.Peer.Name)>> >>)]

\* the body of the loop over p.Connections; st = [nm, em, fault]
GraphConn(st, tbl, conn, p) ==
    IF st.fault \/ Ignored(conn, p) THEN st
    ELSE LET s1 == [nm |-> Put(st.nm, conn.Self.Pid, ProcRow(tbl, conn.Self.Pid)), em |-> st.em]
             s2 == IF conn.Peer.Pid < 0 THEN HostEdge(s1, tbl, conn)
                   ELSE IF conn.Peer.Pid >= MaxInt32 THEN DataEdge(s1, tbl, conn)
                   ELSE ProcessEdge(s1, tbl, conn)
         IN IF ArcFault(conn) THEN [st EXCEPT !.fault = TRUE]
            ELSE [nm |-> s2.nm, em |-> s2.em, fault |-> FALSE]

RECURSIVE GraphConns(_, _, _, _)
GraphConns(st, tbl, cs, p) ==
    IF cs = <<>> THEN st
    ELSE GraphConns(GraphConn(st, tbl, Head(cs), p), tbl, Tail(cs), p)

\* the loop over pt, visiting the processes in the order ord
RECURSIVE GraphProcs(_, _, _, _)
GraphProcs(st, tbl, ord, p) ==
    IF ord = <<>> THEN st
    ELSE GraphProcs(GraphConns(st, tbl, tbl[Head(ord)].Connections, p), tbl, Tail(ord), p)

\* sort.Slice of the rows of nm
RECURSIVE SortNodes(_)
SortNodes(rows) ==
    IF rows = {} THEN <<>>
    ELSE LET m == CHOOSE x \in rows : \A y \in rows \ {x} : x[1] < y[1]
         IN <<m>> \o SortNodes(rows \ {m})

\* sort.Slice of the rows of em
RECURSIVE SortEdges(_)
SortEdges(rows) ==
    IF rows = {} THEN <<>>
    ELSE LET m == CHOOSE x \in rows : \A y \in rows \ {x} :
                            x[2] < y[2] \/ (x[2] = y[2] /\ x[3] < y[3])
         IN <<m>> \o SortEdges(rows \ {m})

\* the response of a request that ran to its end
Frames(tbl, ord, p) ==
    LET st == GraphProcs([nm |-> EmptyMap, em |-> EmptyMap, fault |-> FALSE], tbl, ord, p)
    IN IF st.fault
       THEN [Error |-> "runtime error", nodes |-> <<>>, edges |-> <<>>]
       ELSE [Error |-> "",
             nodes |-> SortNodes({st.nm[k] : k \in DOMAIN st.nm}),
             edges |-> SortEdges({st.em[k] : k \in DOMAIN st.em})]

----------------------------------------------------------------------------
(* The collectors: lsofCommand, src/pkg/connection_unix.go, and             *)
(* parseOutput, src/pkg/process/connection_unix.go                          *)


\* the lines lsof writes: the header, the trailer of a cycle, a blank line, a
\* unix socket of process 2 and a TCP socket of process 3
Lines ==
    {"COMMAND PID USER FD TYPE DEVICE SIZE/OFF NODE NAME",
     "====12:00:00====",
     "",
     "sh 2 root 3u unix 0xa 0t0 ->0xb",
     "nc 3 root 4u IPv4 0xc 0t0 TCP 127.0.0.1:5000->203.0.113.5:443 (ESTABLISHED)"}

NoMatch ==
    [match |-> "", header |-> "", trailer |-> "", command |-> "", pid |-> "", fd |-> "",
     mode |-> "", type |-> "", device |-> "", node |-> "", name |-> ""]

\* regex.FindStringSubmatch: the capture groups of a line
FindStringSubmatch(line) ==
    CASE line = "COMMAND PID USER FD TYPE DEVICE SIZE/OFF NODE NAME"  -> [NoMatch EXCEPT !.match = line, !.header = line]
      [] line = "====12:00:00====" -> [NoMatch EXCEPT !.match = line, !.trailer = "12:00:00"]
      [] line = "sh 2 root 3u unix 0xa 0t0 ->0xb"    ->
           [NoMatch EXCEPT !.match = line, !.command = "sh", !.pid = "2", !.fd = "3",
                           !.mode = "u", !.type = "unix", !.device = "0xa",
                           !.name = "->0xb"]
      [] line = "nc 3 root 4u IPv4 0xc 0t0 TCP 127.0.0.1:5000->203.0.113.5:443 (ESTABLISHED)"    ->
           [NoMatch EXCEPT !.match = line, !.command = "nc", !.pid = "3", !.fd = "4",
                           !.mode = "u", !.type = "IPv4", !.device = "0xc", !.node = "TCP",
                           !.name = "127.0.0.1:5000->203.0.113.5:443 (ESTABLISHED)"]
      [] OTHER              -> NoMatch

\* strconv.Atoi with its error dropped
Atoi(str) ==
    CASE str = "2" -> 2
      [] str = "3" -> 3
      [] str = "4" -> 4
      [] OTHER     -> 0

\* peer[2:] when peer is longer than two bytes and begins with "->"
StripArrow(peer) == IF peer = "->0xb" THEN "0xb" ELSE peer

\* strings.Split(strings.Split(name, " ")[0], "->")
SplitName(name) ==
    IF name = "127.0.0.1:5000->203.0.113.5:443 (ESTABLISHED)"
    THEN <<LoopSelf, ExtAddr>>
    ELSE <<name>>

\* lsofCommand: the switch on fdType
EndpointOfCommand(m) ==
    CASE m.type = "FIFO" ->
           Conn(Atoi(m.fd), m.type, m.name,
                IF m.mode = "w" THEN "" ELSE m.name, IF m.mode = "w" THEN m.name ELSE "")
      [] m.type \in {"PIPE", "unix"} ->
           Conn(Atoi(m.fd), m.type, m.device, m.device, StripArrow(m.name))
      [] m.type \in {"IPv4", "IPv6"} ->
           LET split == SplitName(m.name) IN
           Conn(Atoi(m.fd), m.node, m.device,
                IF Len(split) = 2 THEN split[1] ELSE split[1] \o " ",  \* state is empty
                IF Len(split) = 2 THEN split[2] ELSE "")
      [] m.type = "systm" -> Conn(Atoi(m.fd), m.type, m.name, m.device, "kernel")
      [] m.type = "key" -> Conn(Atoi(m.fd), m.type, m.device, m.device, "")
      [] m.type = "PSXSEM" -> Conn(Atoi(m.fd), m.type, m.name, m.device, m.device)
      [] m.type = "CHR" ->
           Conn(Atoi(m.fd), IF m.name = "/dev/null" THEN "NUL" ELSE m.type, m.name, "", "")
      [] OTHER -> Conn(Atoi(m.fd), m.type, m.name, "", "")

\* parseOutput: the switch on fdType
EndpointOfOutput(m) ==
    CASE m.type \in {"BLK", "DIR", "REG", "PSXSHM"} ->
           Conn(Atoi(m.fd), m.type, m.name, m.name, m.name)
      [] m.type = "FIFO" ->
           Conn(Atoi(m.fd), m.type, m.name,
                IF m.mode = "w" THEN "" ELSE m.name, IF m.mode = "w" THEN m.name ELSE "")
      [] m.type \in {"PIPE", "unix"} ->
           Conn(Atoi(m.fd), m.type, m.device \o "->" \o StripArrow(m.name), m.device,
                StripArrow(m.name))
      [] m.type \in {"IPv4", "IPv6"} ->
           LET split == SplitName(m.name) IN
           Conn(Atoi(m.fd), m.node, m.name, split[1], IF Len(split) > 1 THEN split[2] ELSE "")
      [] m.type = "systm" -> Conn(Atoi(m.fd), m.type, m.name, m.device, "")
      [] m.type = "key" -> Conn(Atoi(m.fd), m.type, m.device, m.device, "")
      [] m.type = "PSXSEM" -> Conn(Atoi(m.fd), m.type, m.name, m.device, m.device)
      [] m.type = "CHR" ->
           Conn(Atoi(m.fd), IF m.name = "/dev/null" THEN "NUL" ELSE m.type, m.name, "", "")
      [] OTHER -> Conn(Atoi(m.fd), m.type, m.name, "", "")

\* the line is skipped: no match, or the header
Skipped(line) ==
    LET m == FindStringSubmatch(line) IN m.match = "" \/ m.header # ""

IsTrailer(line) == FindStringSubmatch(line).trailer # ""

NoTable == [p \in {} |-> <<>>]

\* epm[Pid(pid)] = append(epm[Pid(pid)], ep)
Record(table, fn, line) ==
    LET m == FindStringSubmatch(line)
        p == Atoi(m.pid)
        ep == IF fn = "lsofCommand" THEN EndpointOfCommand(m) ELSE EndpointOfOutput(m)
    IN Put(table, p, (IF p \in DOMAIN table THEN table[p] ELSE <<>>) \o <<ep>>)

\* the table of the descriptor lines among ls
RECURSIVE TableOf(_, _, _)
TableOf(table, fn, ls) ==
    IF ls = <<>> THEN table
    ELSE TableOf(IF Skipped(Head(ls)) \/ IsTrailer(Head(ls)) THEN table
                 ELSE Record(table, fn, Head(ls)),
                 fn, Tail(ls))

\* a trailer that publishes the map and goes on filling it
SwapShared(h, e) == [epMap |-> e, epm |-> e, heap |-> h]

\* the trailer, under the lock: the map is published and epm gets a new map
Swap(h, e) == [epMap |-> e, epm |-> Len(h) + 1, heap |-> Append(h, NoTable)]

----------------------------------------------------------------------------
(* The process tables of the model: what buildTable and the lsof collector *)
(* hand to nodeGraph.                                                      *)

\* pipe ends: a reciprocal pair, an inherited copy of one end, a one-sided end
PoolPipe ==
    << Conn(0, "PIPE", "0xa", "0xa", "0xb"),
       Conn(0, "PIPE", "0xb", "0xb", "0xa"),
       Conn(1, "PIPE", "0xb", "0xb", "0xa"),
       Conn(1, "PIPE", "0xa", "0xa", "") >>

\* unix sockets and a fifo: a listener, its client, a writer and a reader
PoolUnix ==
    << Conn(0, "unix", "0xa", "0xa", ""),
       Conn(0, "unix", "0xb", "0xb", "0xa"),
       Conn(1, "FIFO", "/f", "", "/f"),
       Conn(1, "FIFO", "/f", "/f", "") >>

\* sockets: a local pair, a listener on the address of one of them, a peer
\* lsof prints as *:*
PoolInet ==
    << Conn(0, "TCP", "0xc", LoopSelf, LoopAddr),
       Conn(0, "TCP", "0xd", LoopAddr, LoopSelf),
       Conn(1, "TCP", "0xe", LoopAddr, ""),
       Conn(1, "UDP", "0xf", LoopSelf, StarAddr) >>

\* sockets whose peer no process of the host holds: a remote host, a local
\* interface, the loopback interface
PoolHost ==
    << Conn(0, "TCP", "0xc", LoopSelf, ExtAddr),
       Conn(0, "UDP", "0xd", LoopSelf, ExtAddr),
       Conn(1, "TCP", "0xe", LoopSelf, LanAddr),
       Conn(1, "TCP", "0xf", LanAddr, LoopAddr) >>

\* files, the kernel channel, /dev/null and a remote peer
PoolMisc ==
    << Conn(0, "REG", "/f", "", ""),
       Conn(1, "systm", "0x1", "0x1", "kernel"),
       Conn(2, "TCP", "0xe", LoopSelf, ExtAddr),
       Conn(2, "NUL", "/dev/null", "", "") >>

Pools == {PoolPipe, PoolUnix, PoolInet, PoolHost, PoolMisc}

Pids == 0..MaxPid

ExecOf(pid) ==
    CASE pid = 0 -> ""
      [] pid = 1 -> "/sbin/launchd"
      [] pid % 2 = 0 -> "/bin/sh"
      [] OTHER -> "/usr/bin/nc"

\* the descriptors of the pool that process pid owns, in lsof's order
Owned(pool, owner, pid) ==
    LET ix == SelectSeq([i \in 1..Len(pool) |-> i], LAMBDA i : owner[i] = pid)
    IN [k \in 1..Len(ix) |-> pool[ix[k]]]

\* process 0 is its own parent, process 1 hangs under 0, the others form a
\* chain under 1 except the last, which hangs under top
ParentOf(pid, top) ==
    IF pid <= 1 THEN 0
    ELSE IF pid = MaxPid THEN top
    ELSE pid - 1

Process(pool, owner, pid, top) ==
    [Name |-> Base(ExecOf(pid)), Pid |-> pid, Ppid |-> ParentOf(pid, top),
     Exec |-> ExecOf(pid), Connections |-> Owned(pool, owner, pid)]

Table(pool, owner, top, pids) == [pid \in pids |-> Process(pool, owner, pid, top)]

\* every process of a table is there and so is its parent
Tables(t) ==
    \E pool \in Pools :
        \E owner \in [1..Len(pool) -> Pids], top \in {1, MaxPid - 1} :
            t = Table(pool, owner, top, Pids)

\* tables as a snapshot may be: process 0 not listed, or the last process
\* left with the id of a parent that has exited
FaultTables(t) ==
    \E pool \in {PoolPipe, PoolMisc} :
        \E owner \in [1..Len(pool) -> Pids \ {0}],
           top \in {MaxPid - 1, MaxPid + 1}, gone \in {{}, {0}} :
            t = Table(pool, owner, top, Pids \ gone)

FocusPids == {0, 2}

\* a descriptor as process.BuildTable lists it for process p: the peer's
\* process is not known yet
Endpoints(type, self, peer, p) ==
    [Type |-> type, Self |-> [Name |-> self, Pid |-> p], Peer |-> [Name |-> peer, Pid |-> 0]]

\* the descriptors of a table, by type, local name and peer name:
\*   unix sockets: a socket bound to the path /s held twice, and two clients
\*   a pipe with one end held twice, and the writing end of a fifo
\*   sockets of the host: a pair, a listener, a file
\*   sockets whose peer no process of the host holds: two to the same remote
\*     host, one to the loopback interface, one lsof prints as *:*
\*   a unix socket without a peer name, its client, a remote peer, a file
Packs ==
    { << <<"unix", "0xa", "/s">>,
         <<"unix", "0xa", "/s">>,
         <<"unix", "0xb", "0xa">>,
         <<"unix", "0xc", "0xa">> >>,
      << <<"PIPE", "0xa", "0xb">>,
         <<"PIPE", "0xb", "0xa">>,
         <<"PIPE", "0xb", "0xa">>,
         <<"FIFO", "", "/f">> >>,
      << <<"TCP", LoopSelf, LoopAddr>>,
         <<"TCP", LoopAddr, LoopSelf>>,
         <<"TCP", LoopAddr, "">>,
         <<"REG", "/f", "/f">> >>,
      << <<"TCP", LoopSelf, ExtAddr>>,
         <<"TCP", LanAddr, ExtAddr>>,
         <<"TCP", LanAddr, LoopAddr>>,
         <<"UDP", LoopSelf, StarAddr>> >>,
      << <<"unix", "0xa", "">>,
         <<"unix", "0xb", "0xa">>,
         <<"TCP", LoopSelf, ExtAddr>>,
         <<"REG", "/f", "/f">> >> }

OwnedEndpoints(pack, owner, p) ==
    LET ix == SelectSeq([i \in 1..Len(pack) |-> i], LAMBDA i : owner[i] = p)
    IN [k \in 1..Len(ix) |-> Endpoints(pack[ix[k]][1], pack[ix[k]][2], pack[ix[k]][3], p)]

ProcessEntry(pack, owner, p, top) ==
    [Pid |-> p, Ppid |-> ParentOf(p, top), Name |-> Base(ExecOf(p)),
     Executable |-> ExecOf(p), Connections |-> OwnedEndpoints(pack, owner, p)]

\* the tables of process.BuildTable: processes 0..MaxPid, whose last process
\* may be left with the id of a parent that has exited
ProcessTables(t) ==
    \E pack \in Packs :
        \E owner \in [1..Len(pack) -> Pids \ {0}], top \in {1, MaxPid - 1, MaxPid + 1} :
            t = [p \in Pids |-> ProcessEntry(pack, owner, p, top)]

----------------------------------------------------------------------------
(* The state machine *)

NoIndex == [k \in {} |-> [p \in {} |-> <<>>]]
NoConns == [k \in {} |-> Nil]

NoKeys == [k \in {} |-> 0]
NoResponse == [Error |-> "", nodes |-> <<>>, edges |-> <<>>]

\* no request to Nodegraph
\* no collector is modelled
CollIdle ==
    /\ which = "lsofCommand"
    /\ scanned = 0
    /\ heap = <<>>
    /\ cepm = 0
    /\ epMap = 0
    /\ epLock = "free"
    /\ cpc = "idle"
    /\ rpc = "idle"
    /\ snap = 0
    /\ held = <<>>
    /\ since = <<>>
    /\ cycles = <<>>

ProcIdle ==
    /\ built = <<>>
    /\ ptab = <<>>
    /\ pepm = NoKeys
    /\ hdpid = 0
    /\ resolved = {}
    /\ recovered = FALSE
    /\ ppc = "idle"
    /\ reqpid = 0
    /\ resp = NoResponse

InitWith(focus) ==
    /\ ProcIdle
    /\ CollIdle
    /\ qm \in {[Pid |-> f] : f \in focus}
    /\ pt = tb
    /\ pc = "start"
    /\ epm = NoIndex
    /\ connm = NoConns
    /\ visited = {}
    /\ panicked = FALSE
    /\ conns = <<>>
    /\ prev = <<>>
    /\ pass = 1
    /\ nodes = <<>>
    /\ edges = {}

\* a query for all processes over a table that lists every process
Init == Tables(tb) /\ InitWith({0})

\* a query, for all processes or for a focus process, over a snapshot that
\* may lack a process
FaultInit == FaultTables(tb) /\ InitWith(FocusPids)

\* nodeGraph up to the call of connections: the table of the focus process
Focus ==
    /\ pc = "start"
    /\ IF qm.Pid > 0 /\ ~IsEntry(tb, qm.Pid)
       THEN /\ qm' = DefaultQuery
            /\ pt' = tb
            /\ pc' = "index"
       ELSE IF qm.Pid > 0
       THEN /\ qm' = qm
            /\ IF AncestorsFault(tb, tb[qm.Pid].Ppid, Cardinality(DOMAIN tb))
               THEN pt' = tb /\ pc' = "crashed"
               ELSE pt' = FocusTable(tb, qm.Pid) /\ pc' = "index"
       ELSE /\ qm' = qm
            /\ pt' = tb
            /\ pc' = "index"
    /\ UNCHANGED <<tb, epm, connm, visited, panicked, conns, prev, pass, nodes, edges, others>>

\* connections without the deferred recover: the panic unwinds into the
\* caller
Unrecovered ==
    /\ panicked' = FALSE
    /\ conns' = conns
    /\ pc' = "propagated"

\* connections: the deferred function recovers the panic, and the function
\* returns its zero result
Recovered ==
    /\ panicked' = TRUE
    /\ conns' = <<>>
    /\ pc' = "returned"

\* connections: the first loop builds the endpoint index
Index ==
    /\ pc = "index"
    /\ IF \E pid \in DOMAIN pt : pt[pid] = Nil
       THEN Recovered /\ UNCHANGED <<epm>>
       ELSE /\ epm' = BuildIndex(pt)
            /\ pc' = "correlate"
            /\ UNCHANGED <<panicked, conns>>
    /\ UNCHANGED <<tb, pt, qm, connm, visited, prev, pass, nodes, edges, others>>

\* connections: the range loop visits one more process, in the order of
\* the map
Visit(pid) ==
    /\ pc = "correlate"
    /\ pid \in DOMAIN pt \ visited
    /\ IF Faults(pt, pid)
       THEN Recovered /\ UNCHANGED <<connm, visited>>
       ELSE /\ connm' = ProcessStep(connm, pt, epm, pid)
            /\ visited' = visited \cup {pid}
            /\ UNCHANGED <<panicked, conns, pc>>
    /\ UNCHANGED <<tb, pt, qm, epm, prev, pass, nodes, edges, others>>

\* connections: the keys are sorted and the slice is returned
Return ==
    /\ pc = "correlate"
    /\ visited = DOMAIN pt
    /\ conns' = SortedConns(connm)
    /\ pc' = "returned"
    /\ UNCHANGED <<tb, pt, qm, epm, connm, visited, panicked, prev, pass, nodes, edges, others>>

\* the next query finds the same table: a second pass over it
Again ==
    /\ pc = "returned"
    /\ pass = 1
    /\ prev' = conns
    /\ pass' = 2
    /\ epm' = NoIndex
    /\ connm' = NoConns
    /\ visited' = {}
    /\ panicked' = FALSE
    /\ conns' = <<>>
    /\ pc' = "index"
    /\ UNCHANGED <<tb, pt, qm, nodes, edges, others>>

Queries(pid) ==
    {[Pid |-> pid, Kernel |-> k, Daemons |-> d, Files |-> f] : k, d, f \in BOOLEAN}

\* nodeGraph after connections returned: nodes and edges of the frames
Assemble(q) ==
    /\ pc = "returned"
    /\ pass = 1
    /\ "Kernel" \in DOMAIN qm => q = qm
    /\ LET st == Assembled(pt, conns, q) IN
         /\ pt' = st.pt
         /\ nodes' = NodeRows(st.pt, [k \in DOMAIN st.nm \ {".[0]"} |-> st.nm[k]], FlatTree(st.pt))
         /\ edges' = { <<id>> \o st.em[id] : id \in DOMAIN st.em }
    /\ qm' = q
    /\ pc' = "done"
    /\ UNCHANGED <<tb, epm, connm, visited, panicked, conns, prev, pass, others>>

\* no query to nodeGraph
GraphIdle ==
    /\ tb = <<>>
    /\ pt = <<>>
    /\ qm = [Pid |-> 0]
    /\ pc = "idle"
    /\ epm = NoIndex
    /\ connm = NoConns
    /\ visited = {}
    /\ panicked = FALSE
    /\ conns = <<>>
    /\ prev = <<>>
    /\ pass = 1
    /\ nodes = <<>>
    /\ edges = {}

\* a request to Nodegraph, for all processes or for one: the table is built
ProcInit ==
    /\ GraphIdle
    /\ CollIdle
    /\ ProcessTables(built)
    /\ ptab = built
    /\ pepm = NoKeys
    /\ hdpid = 0
    /\ resolved = {}
    /\ recovered = FALSE
    /\ ppc = "index"
    /\ reqpid \in {0, 2}
    /\ resp = NoResponse

\* process.Connections: the first loop builds the endpoint index; a panic is
\* recovered and the function returns. The orders of the map are those of the
\* processes that hold descriptors: the others add nothing to the index.
ConnectionsIndex ==
    /\ ppc = "index"
    /\ IF \E p \in DOMAIN ptab : \E i \in 1..Len(ptab[p].Connections) :
             IndexFault(ptab[p].Connections[i])
       THEN /\ recovered' = TRUE
            /\ ppc' = "connected"
            /\ UNCHANGED pepm
       ELSE /\ \E ord \in Orders({p \in DOMAIN ptab : Len(ptab[p].Connections) > 0}) :
                    pepm' = IndexProcs(NoKeys, ptab, ord)
            /\ ppc' = "resolve"
            /\ UNCHANGED recovered
    /\ UNCHANGED <<built, ptab, hdpid, resolved, reqpid, resp, graphVars, collVars>>

\* process.Connections: the second loop visits one more process, in the
\* order of the map
ConnectionsVisit(p) ==
    /\ ppc = "resolve"
    /\ p \in DOMAIN ptab \ resolved
    /\ LET st == ResolveProcess([pt |-> ptab, hdpid |-> hdpid], pepm, p) IN
         /\ ptab' = st.pt
         /\ hdpid' = st.hdpid
    /\ resolved' = resolved \cup {p}
    /\ IF ParentFault(ptab, p)
       THEN recovered' = TRUE /\ ppc' = "connected"
       ELSE UNCHANGED <<recovered, ppc>>
    /\ UNCHANGED <<built, pepm, reqpid, resp, graphVars, collVars>>

\* process.Connections: the second loop has visited every process
ConnectionsReturn ==
    /\ ppc = "resolve"
    /\ resolved = DOMAIN ptab
    /\ ppc' = "connected"
    /\ UNCHANGED <<built, ptab, pepm, hdpid, resolved, recovered, reqpid, resp, graphVars, collVars>>

\* Nodegraph after process.Connections returned: the processes of the graph
\* are selected and the frames built; a panic is recovered into resp.Error.
\* The orders of the map are those of the processes with a connection the
\* loop does not ignore: the others add nothing to the frames.
Respond ==
    /\ ppc = "connected"
    /\ IF SelectFault(ptab, reqpid)
       THEN resp' = [Error |-> "runtime error", nodes |-> <<>>, edges |-> <<>>]
       ELSE \E ord \in Orders({p \in Selected(ptab, reqpid) :
                                  \E i \in 1..Len(ptab[p].Connections) :
                                      ~Ignored(ptab[p].Connections[i], Asked(ptab, reqpid))}) :
                resp' = Frames(ptab, ord, Asked(ptab, reqpid))
    /\ ppc' = "responded"
    /\ UNCHANGED <<built, ptab, pepm, hdpid, resolved, recovered, reqpid, graphVars, collVars>>

Next ==
    \/ Focus
    \/ Index
    \/ \E pid \in DOMAIN pt : Visit(pid)
    \/ Return
    \/ \E q \in Queries(qm.Pid) : Assemble(q)

\* one query
Spec == Init /\ [][Next]_vars

\* one query over a snapshot that may lack a process
FaultSpec == FaultInit /\ [][Next]_vars

\* a query and the correlation pass of the next query over the same table
RepeatNext == Next \/ Again

RepeatSpec == Init /\ [][RepeatNext]_vars

ProcNext ==
    \/ ConnectionsIndex
    \/ \E p \in DOMAIN ptab : ConnectionsVisit(p)
    \/ ConnectionsReturn
    \/ Respond

\* one request to Nodegraph
ProcSpec == ProcInit /\ [][ProcNext]_vars

----------------------------------------------------------------------------
(* The collector and a reader of epMap                                      *)

\* the collector starts: epMap holds its initial table, epm := map[Pid]Connections{}
CollectInit ==
    /\ GraphIdle
    /\ ProcIdle
    /\ which \in {"lsofCommand", "parseOutput"}
    /\ scanned = 0
    /\ heap = <<NoTable, NoTable>>
    /\ epMap = 1
    /\ cepm = 2
    /\ epLock = "free"
    /\ cpc = "scan"
    /\ rpc = "idle"
    /\ snap = 0
    /\ held = <<>>
    /\ since = <<>>
    /\ cycles = <<>>

\* sc.Scan delivers a line: it is skipped, or it is a trailer, or its
\* descriptor is appended to the table epm refers to
CollectorScan(line) ==
    /\ cpc = "scan"
    /\ scanned < MaxLines
    /\ scanned' = scanned + 1
    /\ IF Skipped(line)
       THEN UNCHANGED <<heap, cpc>>
       ELSE IF IsTrailer(line)
            THEN cpc' = "lock" /\ UNCHANGED heap
            ELSE /\ heap' = [heap EXCEPT ![cepm] = Record(heap[cepm], which, line)]
                 /\ UNCHANGED cpc
    /\ since' = Append(since, line)
    /\ UNCHANGED <<which, cepm, epMap, epLock, rpc, snap, held, cycles, graphVars, procVars>>

\* epLock.Lock()
CollectorLock ==
    /\ cpc = "lock"
    /\ epLock = "free"
    /\ epLock' = "W"
    /\ cpc' = "swap"
    /\ UNCHANGED <<which, scanned, heap, cepm, epMap, rpc, snap, held, since, cycles,
                   graphVars, procVars>>

\* epMap = epm; epm = map[Pid]Connections{}
CollectorSwap ==
    /\ cpc = "swap"
    /\ LET s == Swap(heap, cepm) IN
         /\ epMap' = s.epMap
         /\ cepm' = s.epm
         /\ heap' = s.heap
    /\ cycles' = Append(cycles, TableOf(NoTable, which, since))
    /\ since' = <<>>
    /\ cpc' = "unlock"
    /\ UNCHANGED <<which, scanned, epLock, rpc, snap, held, graphVars, procVars>>

\* epLock.Unlock()
CollectorUnlock ==
    /\ cpc = "unlock"
    /\ epLock' = "free"
    /\ cpc' = "scan"
    /\ UNCHANGED <<which, scanned, heap, cepm, epMap, rpc, snap, held, since, cycles,
                   graphVars, procVars>>

\* sc.Scan returns false: lsofCommand calls os.Exit, parseOutput panics;
\* the program ends either way
CollectorExit ==
    /\ cpc = "scan"
    /\ cpc' = "exited"
    /\ UNCHANGED <<which, scanned, heap, cepm, epMap, epLock, rpc, snap, held, since, cycles,
                   graphVars, procVars>>

\* the reader: epLock.RLock()
ReaderRLock ==
    /\ cpc # "exited"
    /\ rpc = "idle"
    /\ epLock = "free"
    /\ epLock' = "R"
    /\ rpc' = "locked"
    /\ UNCHANGED <<which, scanned, heap, cepm, epMap, cpc, snap, held, since, cycles,
                   graphVars, procVars>>

\* the reader takes the reference epMap holds
ReaderTake ==
    /\ cpc # "exited"
    /\ rpc = "locked"
    /\ snap' = epMap
    /\ held' = heap[epMap]
    /\ rpc' = "taken"
    /\ UNCHANGED <<which, scanned, heap, cepm, epMap, epLock, cpc, since, cycles,
                   graphVars, procVars>>

\* the reader: epLock.RUnlock(); its pass over the table begins
ReaderRUnlock ==
    /\ cpc # "exited"
    /\ rpc = "taken"
    /\ epLock' = "free"
    /\ rpc' = "using"
    /\ UNCHANGED <<which, scanned, heap, cepm, epMap, cpc, snap, held, since, cycles,
                   graphVars, procVars>>

\* the reader's pass over the table ends
ReaderDone ==
    /\ cpc # "exited"
    /\ rpc = "using"
    /\ rpc' = "idle"
    /\ UNCHANGED <<which, scanned, heap, cepm, epMap, epLock, cpc, snap, held, since, cycles,
                   graphVars, procVars>>

CollectNext ==
    \/ \E line \in Lines : CollectorScan(line)
    \/ CollectorLock
    \/ CollectorSwap
    \/ CollectorUnlock
    \/ CollectorExit
    \/ ReaderRLock
    \/ ReaderTake
    \/ ReaderRUnlock
    \/ ReaderDone

\* a collector and a reader of epMap
CollectSpec == CollectInit /\ [][CollectNext]_vars


----------------------------------------------------------------------------
(* Properties *)

Positions(tbl, pid) == 1..Len(tbl[pid].Connections)

\* the descriptor numbers of a process are pairwise distinct
UniqueFds(tbl, pid) ==
    \A i, j \in Positions(tbl, pid) :
        i # j => tbl[pid].Connections[i].Descriptor # tbl[pid].Connections[j].Descriptor

\* the two endpoints of a connection
Ends(c) == {<<c.self.pid, c.self.fd>>, <<c.peer.pid, c.peer.fd>>}

IsParentConn(c) == c.self.fd = -1 /\ c.peer.fd = -1 /\ c.self.name = "parent"

\* descriptors A of P and B of Q name each other, and at least one of them
\* names a peer
ReciprocalPair(tbl, P, i, Q, j) ==
    LET A == tbl[P].Connections[i]
        B == tbl[Q].Connections[j]
    IN /\ P # Q
       /\ A.Type = B.Type
       /\ A.Type \in {"FIFO", "PIPE", "TCP", "UDP", "unix"}
       /\ A.Peer = B.Self
       /\ B.Peer = A.Self
       /\ (A.Peer # "" \/ B.Peer # "")
       /\ UniqueFds(tbl, P)
       /\ UniqueFds(tbl, Q)

Between(cs, P, fdA, Q, fdB) ==
    {k \in 1..Len(cs) : Ends(cs[k]) = {<<P, fdA>>, <<Q, fdB>>}}

\* C1: when descriptor A of process P and descriptor B of another process Q
\* have the same transport type and each names the other as its peer, and the
\* descriptor numbers of P and of Q are unique, the returned list holds
\* exactly one connection between (P, A.fd) and (Q, B.fd), whatever the order
\* in which the table was visited.
C1_OneConnectionPerPair ==
    pc = "returned" =>
        \A P, Q \in DOMAIN pt :
            \A i \in Positions(pt, P), j \in Positions(pt, Q) :
                ReciprocalPair(pt, P, i, Q, j) =>
                    Cardinality(Between(conns, P, pt[P].Connections[i].Descriptor,
                                        Q, pt[Q].Connections[j].Descriptor)) = 1

\* a pass returned the connection of a reciprocal pair whose second process
\* was visited first
C1_Witness ==
    /\ pc = "returned"
    /\ \E P, Q \in DOMAIN pt :
         /\ P < Q
         /\ \E i \in Positions(pt, P), j \in Positions(pt, Q) :
              /\ ReciprocalPair(pt, P, i, Q, j)
              /\ \E k \in 1..Len(conns) :
                   /\ conns[k].self.pid = Q
                   /\ conns[k].self.fd = pt[Q].Connections[j].Descriptor
                   /\ conns[k].peer.pid = P
                   /\ conns[k].peer.fd = pt[P].Connections[i].Descriptor

\* C2: two passes over the same table return the same ordered list, whatever
\* the order in which each pass visits the table.
C2_SamePassSameList ==
    (pass = 2 /\ pc = "returned") => conns = prev

IsListener(d) == d.Type \in {"FIFO", "PIPE", "TCP", "UDP", "unix"} /\ d.Peer = ""

\* C3: a transport descriptor with an empty peer string adds no connection
\* when it is processed, and is the self endpoint of no returned connection.
C3_ListenerEmitsNothing ==
    pc \in {"correlate", "returned"} =>
        \A pid \in DOMAIN pt : \A i \in Positions(pt, pid) :
            LET d == pt[pid].Connections[i] IN
            IsListener(d) =>
                /\ ConnStep(connm, pt, epm, pid, d) = connm
                /\ (pc = "returned" /\ UniqueFds(pt, pid)) =>
                     \A k \in 1..Len(conns) :
                        ~(conns[k].self.pid = pid /\ conns[k].self.fd = d.Descriptor)

\* a listener is the peer of a returned connection
C3_Witness ==
    /\ pc = "returned"
    /\ \E pid \in DOMAIN pt : \E i \in Positions(pt, pid) :
         /\ IsListener(pt[pid].Connections[i])
         /\ UniqueFds(pt, pid)
         /\ \E k \in 1..Len(conns) :
              /\ conns[k].peer.pid = pid
              /\ conns[k].peer.fd = pt[pid].Connections[i].Descriptor
              /\ conns[k].self.pid >= 0

\* a TCP or UDP descriptor whose peer no descriptor of the table has as its
\* local name
Unmatched(tbl, pid, i) ==
    LET d == tbl[pid].Connections[i] IN
    /\ d.Type \in {"TCP", "UDP"}
    /\ d.Peer # ""
    /\ \A q \in DOMAIN tbl : \A j \in Positions(tbl, q) :
         ~(tbl[q].Connections[j].Type = d.Type /\ tbl[q].Connections[j].Self = d.Peer)
    /\ UniqueFds(tbl, pid)

ExternalFor(cs, pid, d) ==
    {k \in 1..Len(cs) :
        /\ cs[k].self.pid = -1
        /\ cs[k].self.name = d.Peer
        /\ cs[k].ftype = d.Type
        /\ cs[k].peer.pid = pid
        /\ cs[k].peer.fd = d.Descriptor}

Touching(cs, pid, fd) ==
    {k \in 1..Len(cs) : <<pid, fd>> \in Ends(cs[k])}

\* C4: a TCP or UDP descriptor whose peer is not in the index yields an
\* external-host connection when the peer is 203.0.113.5:443, and yields no
\* connection when the peer is on the loopback (127.0.0.1:8080) or on a local
\* interface (10.0.0.2:22).
C4_HostClassification ==
    pc = "returned" =>
        \A pid \in DOMAIN pt : \A i \in Positions(pt, pid) :
            LET d == pt[pid].Connections[i] IN
            Unmatched(pt, pid, i) =>
                /\ d.Peer = ExtAddr => ExternalFor(conns, pid, d) # {}
                /\ d.Peer \in {LoopAddr, LanAddr} =>
                     /\ Touching(conns, pid, d.Descriptor) = {}
                     /\ ConnStep(connm, pt, epm, pid, d) = connm

\* one process holds a socket to the remote host, and a process a socket to
\* a loopback address nobody listens on
C4_Witness ==
    /\ pc = "returned"
    /\ \E pid \in DOMAIN pt : \E i \in Positions(pt, pid) :
         /\ Unmatched(pt, pid, i)
         /\ pt[pid].Connections[i].Peer = ExtAddr
         /\ ExternalFor(conns, pid, pt[pid].Connections[i]) # {}
    /\ \E pid \in DOMAIN pt : \E i \in Positions(pt, pid) :
         /\ Unmatched(pt, pid, i)
         /\ pt[pid].Connections[i].Peer = LoopAddr

HasParentConn(cs, P, C) ==
    \E k \in 1..Len(cs) :
        /\ cs[k].ftype = "parent:" \o Itoa(P)
        /\ cs[k].self.pid = P
        /\ cs[k].peer.pid = C

\* C5: for every process C of the table whose parent P is in the table and
\* is neither process 0 nor process 1, the returned list holds a parent
\* connection from P to C.
C5_ParentConnection ==
    pc = "returned" =>
        \A C \in DOMAIN pt :
            (/\ pt[C] # Nil
             /\ pt[C].Ppid \in DOMAIN pt
             /\ pt[C].Ppid \notin {0, 1}
             /\ pt[pt[C].Ppid] # Nil)
            => HasParentConn(conns, pt[C].Ppid, C)

\* the ids under which a real process is a node
ProcessIds(tbl, pid) ==
    IF pid = 0 THEN {ProcId(tbl, 0), "kernel[0]"} ELSE {ProcId(tbl, pid)}

EdgesBetween(es, tbl, P, Q) ==
    {e \in es : \/ e[2] \in ProcessIds(tbl, P) /\ e[3] \in ProcessIds(tbl, Q)
                \/ e[2] \in ProcessIds(tbl, Q) /\ e[3] \in ProcessIds(tbl, P)}

\* C6: the edges frame holds at most one edge between two processes.
C6_OneEdgePerPair ==
    pc = "done" =>
        \A P, Q \in DOMAIN tb :
            P # Q => Cardinality(EdgesBetween(edges, tb, P, Q)) <= 1

\* C7: without the kernel option no node of the nodes frame is process 0 and
\* no edge has process 0 as its source or target.
C7_NoKernel ==
    (pc = "done" /\ ~qm.Kernel) =>
        /\ \A k \in 1..Len(nodes) : nodes[k][1] \notin ProcessIds(tb, 0)
        /\ \A e \in edges : e[2] \notin ProcessIds(tb, 0) /\ e[3] \notin ProcessIds(tb, 0)

\* C8: without the daemons option no edge has process 1 as its source or
\* target.
C8_NoDaemonEdge ==
    (pc = "done" /\ ~qm.Daemons) =>
        \A e \in edges : e[2] \notin ProcessIds(tb, 1) /\ e[3] \notin ProcessIds(tb, 1)

\* (self pid, peer pid, self descriptor, peer descriptor) of a connection
OrderTuple(c) == <<c.self.pid, c.peer.pid, c.self.fd, c.peer.fd>>

LexLess(a, b) ==
    \E n \in 1..4 : a[n] < b[n] /\ \A m \in 1..(n - 1) : a[m] = b[m]

\* C9: the returned list is strictly ascending by self process id, then peer
\* process id, then self descriptor, then peer descriptor.
C9_StrictlyAscending ==
    pc = "returned" =>
        \A i, j \in 1..Len(conns) :
            i < j => LexLess(OrderTuple(conns[i]), OrderTuple(conns[j]))

\* a returned list with a parent, a file, a kernel and an external-host
\* record, two of them of the same process
C9_Witness ==
    /\ pc = "returned"
    /\ \E k \in 1..Len(conns) : IsParentConn(conns[k])
    /\ \E k \in 1..Len(conns) : conns[k].self.pid = -1
    /\ \E k, l \in 1..Len(conns) :
         /\ conns[k].peer.pid = MaxInt32
         /\ conns[l].ftype = "systm"
         /\ conns[k].self.pid = conns[l].self.pid

\* some process of the table makes the pass dereference a nil pointer
TableFault(tbl) ==
    \E pid \in DOMAIN tbl :
        \/ tbl[pid] = Nil
        \/ tbl[pid].Ppid \notin DOMAIN tbl
        \/ tbl[tbl[pid].Ppid] = Nil

\* C10: a pass over a table with a nil entry or with a process whose parent
\* is not in the table returns to its caller, and returns an empty list.
C10_FaultIsCaught ==
    (TableFault(pt) /\ pc \notin {"start", "crashed", "index", "correlate"}) =>
        /\ pc \in {"returned", "done"}
        /\ pc = "returned" => (panicked /\ conns = <<>>)

\* a pass over the table of a focus process, holding nil for process 0,
\* has returned
C10_Witness ==
    /\ pc = "returned"
    /\ panicked
    /\ \E pid \in DOMAIN pt : pt[pid] = Nil

NodeIds(ns) == {ns[k][1] : k \in 1..Len(ns)}

\* C12: every id an edge of the edges frame has as its source or its target
\* is the id of a row of the nodes frame.
C12_EdgeEndsAreNodes ==
    pc = "done" =>
        \A e \in edges : e[2] \in NodeIds(nodes) /\ e[3] \in NodeIds(nodes)

\* the returned connections, parent connections aside, whose self endpoint
\* is descriptor fd of process pid
FromDescriptor(cs, pid, fd) ==
    {k \in 1..Len(cs) :
        /\ ~IsParentConn(cs[k])
        /\ cs[k].self.pid = pid
        /\ cs[k].self.fd = fd}

\* C14: for every process with unique descriptor numbers and every one of
\* its descriptors, the returned list holds at most one connection, parent
\* connections aside, whose self endpoint is that process and descriptor.
C14_AtMostOnePerDescriptor ==
    pc = "returned" =>
        \A pid \in DOMAIN pt :
            UniqueFds(pt, pid) =>
                \A i \in Positions(pt, pid) :
                    Cardinality(FromDescriptor(conns, pid, pt[pid].Connections[i].Descriptor)) <= 1

\* the peer does not parse as host:port with a literal IP host
Unparsable(peer) == ParseIP(SplitHostPort(peer)[1]) = "<nil>"

\* C15: a TCP or UDP descriptor whose peer is not in the index and does not
\* parse as host:port with a literal IP host is an endpoint of no returned
\* connection.
C15_UnparsablePeerDiscarded ==
    pc = "returned" =>
        \A pid \in DOMAIN pt : \A i \in Positions(pt, pid) :
            (Unmatched(pt, pid, i) /\ Unparsable(pt[pid].Connections[i].Peer)) =>
                Touching(conns, pid, pt[pid].Connections[i].Descriptor) = {}

ParentConnsOf(cs, C) ==
    {k \in 1..Len(cs) : IsParentConn(cs[k]) /\ cs[k].peer.pid = C}

\* C18: the returned list holds a parent connection for a process exactly
\* when the parent of the process is neither process 0 nor process 1, holds
\* one only, and no parent connection has process 0 or process 1 as its self
\* endpoint.
C18_ParentOnlyBelowRoot ==
    (pc = "returned" /\ ~panicked) =>
        /\ \A C \in DOMAIN pt :
             Cardinality(ParentConnsOf(conns, C)) = (IF pt[C].Ppid \in {0, 1} THEN 0 ELSE 1)
        /\ \A k \in 1..Len(conns) :
             IsParentConn(conns[k]) => conns[k].self.pid \notin {0, 1}

\* a connection between descriptors of two processes of the host
IntraHost(c) == c.ftype \in TransportTypes /\ c.self.pid >= 0

\* the condition as section 4.2.c words it
ClaimedMatch(A, B) ==
    /\ B.Type = A.Type
    /\ B.Peer = A.Self
    /\ \/ B.Self = A.Peer
       \/ B.Self = "" /\ A.Type \in {"PSXSHM", "unix"}

\* the condition with the local and the peer string of B in each other's
\* place
PeerMatch(A, B) ==
    /\ B.Type = A.Type
    /\ B.Self = A.Peer
    /\ \/ B.Peer = A.Self
       \/ B.Peer = "" /\ A.Type \in {"PSXSHM", "unix"}

\* connection c joins a descriptor A of its self process to a descriptor B
\* of another process, and M holds of A and B
Joins(tbl, c, M(_, _)) ==
    /\ c.self.pid # c.peer.pid
    /\ \E i \in Positions(tbl, c.self.pid), j \in Positions(tbl, c.peer.pid) :
         /\ tbl[c.self.pid].Connections[i].Descriptor = c.self.fd
         /\ tbl[c.peer.pid].Connections[j].Descriptor = c.peer.fd
         /\ M(tbl[c.self.pid].Connections[i], tbl[c.peer.pid].Connections[j])

\* C19 as claimed: every returned intra-host connection joins descriptor A of
\* process P to descriptor B of another process Q of the same type, B's peer
\* string being A's local string, and B's local string being A's peer string
\* or empty on a shared-memory or unix-domain transport.
C19_ReciprocalAsClaimed ==
    pc = "returned" =>
        \A k \in 1..Len(conns) :
            IntraHost(conns[k]) => Joins(pt, conns[k], ClaimedMatch)

\* C19 amended: every returned intra-host connection joins descriptor A of
\* process P to descriptor B of another process Q of the same type, B's local
\* string being A's peer string, and B's peer string being A's local string
\* or empty on a shared-memory or unix-domain transport.
C19_ReciprocalCondition ==
    pc = "returned" =>
        \A k \in 1..Len(conns) :
            IntraHost(conns[k]) => Joins(pt, conns[k], PeerMatch)

\* a unix socket is connected to a listener that names no peer, and a pipe
\* end to its other end
C19_Witness ==
    /\ pc = "returned"
    /\ \E k \in 1..Len(conns) :
         /\ IntraHost(conns[k])
         /\ conns[k].ftype = "unix"
         /\ \E j \in Positions(pt, conns[k].peer.pid) :
              /\ pt[conns[k].peer.pid].Connections[j].Descriptor = conns[k].peer.fd
              /\ pt[conns[k].peer.pid].Connections[j].Peer = ""
              /\ UniqueFds(pt, conns[k].peer.pid)

\* C11: the response of a graph request carries no error, whether or not a
\* fault occurred while it was served.
C11_NoErrorResponse ==
    ppc = "responded" => resp.Error = ""

\* the descriptors of a table: process and position
Descriptors(tbl) ==
    UNION { { <<p, i>> : i \in 1..Len(tbl[p].Connections) } : p \in DOMAIN tbl }

\* the host of the peer is an address of this host or a loopback address
LocalPeer(peer) ==
    LET ip == ParseIP(SplitHostPort(peer)[1])
    IN ip \in localIps \/ ip \in DOMAIN interfaces \/ IsLoopback(ip)

\* C16: a descriptor is given a negative peer process id only if its peer
\* parses as host:port and the host is neither an address of this host nor a
\* loopback address.
C16_RemoteOnlyIfNotLocal ==
    ppc \in {"resolve", "connected"} =>
        \A d \in Descriptors(ptab) :
            LET conn == ptab[d[1]].Connections[d[2]] IN
            conn.Peer.Pid < 0 =>
                SplitHostPortOk(conn.Peer.Name) /\ ~LocalPeer(conn.Peer.Name)

\* C17: after a pass, two descriptors with a negative peer process id have
\* the same id exactly when they name the same remote host:port.
C17_OneIdPerRemote ==
    (ppc = "connected" /\ ~recovered) =>
        \A d, e \in Descriptors(ptab) :
            LET c1 == ptab[d[1]].Connections[d[2]]
                c2 == ptab[e[1]].Connections[e[2]]
            IN (c1.Peer.Pid < 0 /\ c2.Peer.Pid < 0) =>
                   (c1.Peer.Pid = c2.Peer.Pid <=> c1.Peer.Name = c2.Peer.Name)

\* C20: a pass leaves the type and the local name of every descriptor the
\* table was built with as they were, and changes the peer name only of a
\* unix-socket descriptor whose peer name was empty.
C20_OnlyUnknownPeerBackfilled ==
    ppc \in {"resolve", "connected"} =>
        \A d \in Descriptors(built) :
            LET was == built[d[1]].Connections[d[2]]
                now == ptab[d[1]].Connections[d[2]]
            IN /\ now.Type = was.Type
               /\ now.Self = was.Self
               /\ now.Peer.Name # was.Peer.Name =>
                      (was.Type = "unix" /\ was.Peer.Name = "")

\* C13: the table epMap refers to is its initial table or exactly the records
\* of the cycle the last trailer closed, a table a reader took under the read
\* lock still has the content it had when taken and is the initial table or
\* the records of a closed cycle, and records parsed after the last trailer
\* are in no published table when the output ends.
C13_PublishedTableIsWholeCycle ==
    /\ cpc # "idle" =>
         IF cycles = <<>>
         THEN epMap = 1 /\ heap[epMap] = NoTable
         ELSE heap[epMap] = cycles[Len(cycles)]
    /\ rpc \in {"taken", "using"} =>
         /\ heap[snap] = held
         /\ \/ snap = 1 /\ held = NoTable
            \/ \E k \in 1..Len(cycles) : held = cycles[k]
    /\ cpc \notin {"idle", "swap"} => epMap # cepm

\* C13: a reader is in its pass over a table of descriptors while the collector
\* has published a later cycle and has parsed records of the next one
C13_Witness ==
    /\ rpc = "using"
    /\ held # NoTable
    /\ snap # epMap
    /\ heap[epMap] # held
    /\ heap[cepm] # NoTable
    /\ TableOf(NoTable, which, since) # NoTable

\* C21: building the endpoint index never faults: once process.Connections
\* has left its first loop, no panic was recovered before the second loop
\* visited a process.
C21_IndexNeverFaults ==
    ppc # "index" => ~(recovered /\ resolved = {})

\* following the parent links from pid ends at a process that is its own
\* parent or whose parent the table does not list
RECURSIVE ReachesRoot(_, _, _)
ReachesRoot(tbl, pid, fuel) ==
    IF pid \notin DOMAIN tbl THEN TRUE
    ELSE IF tbl[pid].Ppid = pid THEN TRUE
    ELSE IF fuel = 0 THEN FALSE
    ELSE ReachesRoot(tbl, tbl[pid].Ppid, fuel - 1)

Acyclic(tbl) ==
    \A p \in DOMAIN tbl : ReachesRoot(tbl, p, Cardinality(DOMAIN tbl))

\* the processes above pid, by parent links
RECURSIVE Above(_, _, _)
Above(tbl, pid, fuel) ==
    IF pid \notin DOMAIN tbl \/ fuel = 0 \/ tbl[pid].Ppid = pid THEN {}
    ELSE {tbl[pid].Ppid} \cup Above(tbl, tbl[pid].Ppid, fuel - 1)

\* the positions in conns of the external-host connections, in order
HostPositions == SelectSeq([k \in 1..Len(conns) |-> k], LAMBDA k : conns[k].self.pid = -1)

\* C22: after the external-host splices of a query that adds no file nodes,
\* the parent links of the table are acyclic and every synthetic node is an
\* ancestor of the process that owns its connection.
C22_SplicesKeepTree ==
    (pc = "done" /\ ~qm.Files /\ ~panicked /\ Acyclic(tb)) =>
        /\ Acyclic(pt)
        /\ \A n \in 1..Len(HostPositions) :
              -n \in Above(pt, conns[HostPositions[n]].peer.pid, Cardinality(DOMAIN pt))

\* a process of the table, neither a remote host nor a data resource
RealPid(q) == q > 0 /\ q < MaxInt32

\* the edges of the response between P and Q, in either direction
PairEdges(P, Q) ==
    {k \in 1..Len(resp.edges) : {resp.edges[k][2], resp.edges[k][3]} = {P, Q}}

\* the descriptors the loop of Nodegraph draws
Drawn ==
    {d \in Descriptors(ptab) :
        /\ d[1] \in Selected(ptab, reqpid)
        /\ ~Ignored(ptab[d[1]].Connections[d[2]], Asked(ptab, reqpid))}

\* those of the descriptors ds that connect P and Q
PairConns(ds, P, Q) ==
    {d \in ds : {ptab[d[1]].Connections[d[2]].Self.Pid,
                 ptab[d[1]].Connections[d[2]].Peer.Pid} = {P, Q}}

\* C23: the response holds at most one edge for a pair of processes, and the
\* label of that edge has its heading and one line for every connection
\* between the two, whatever the directions of the connections.
C23_OneEdgePerPairOfProcesses ==
    (ppc = "responded" /\ resp.Error = "") =>
        LET ds == Drawn IN
        \A P \in DOMAIN ptab, Q \in DOMAIN ptab :
            (RealPid(P) /\ RealPid(Q) /\ P < Q) =>
                /\ Cardinality(PairEdges(P, Q)) <= 1
                /\ PairConns(ds, P, Q) # {} => Cardinality(PairEdges(P, Q)) = 1
                /\ \A k \in PairEdges(P, Q) :
                      Len(resp.edges[k][6]) = 1 + Cardinality(PairConns(ds, P, Q))

\* C23: an edge between two processes carries lines of connections drawn in
\* both directions
C23_Witness ==
    /\ ppc = "responded"
    /\ resp.Error = ""
    /\ \E k \in 1..Len(resp.edges) :
          /\ RealPid(resp.edges[k][2]) /\ RealPid(resp.edges[k][3])
          /\ Len(resp.edges[k][6]) >= 3
          /\ \E d, e \in PairConns(Drawn, resp.edges[k][2], resp.edges[k][3]) :
                /\ ptab[d[1]].Connections[d[2]].Self.Pid = resp.edges[k][2]
                /\ ptab[e[1]].Connections[e[2]].Self.Pid = resp.edges[k][3]

====
